---- MODULE Spec2Model ----
(***************************************************************************)
(* Bank management system: the Streamlit script bank_app.py and the        *)
(* cached MySQL connection of db_config.py.                                *)
(*                                                                         *)
(* Every browser session runs the script main() from the top on each       *)
(* interaction: connect(), create_user_table(), then the login page or the *)
(* selected banking form, whose handler calls one database function.       *)
(* Sessions run concurrently; they interleave at the database statements   *)
(* and at the calls of the cached connect().  Money is counted in whole    *)
(* currency units.  Lines 362-366 of bank_app.py hold the markers of an     *)
(* unresolved merge whose two sides differ in a sidebar caption only; the  *)
(* model follows main() with either side taken.                            *)
(***************************************************************************)
EXTENDS Integers, Sequences, FiniteSets, TLC

\* ------------------------------------------------------------------ bounds
MaxConns == 2
MaxAccounts == 1
MaxUsers == 2

\* ------------------------------------------------------- program constants
MAX_RETRIES == 5

\* ------------------------------------------------------------------ inputs
Sessions == {"s1", "s2"}
Emails == {"a@x.com", "b@x.com"}
Passwords == {"short", "secret1", "other12"}
Salts == {"s1"}
Names == {"Asha"}
AccountEmails == {"asha@x.com"}
OpeningBalances == {0, 100}
\* st.number_input(min_value=0.01) and st.number_input(min_value=1): the
\* widgets of transaction_ui and check_balance_ui hand over no smaller value
Amounts == {25, 50, 150}
AccountIds == 1..(MaxAccounts + 1)
Operations == {"Deposit", "Withdraw"}

NoHandle == 0
NoValue == <<>>
None == ""

VARIABLES
    accounts,        \* table accounts: row i has id i
    users,           \* table users
    users_table,     \* TRUE once CREATE TABLE IF NOT EXISTS users has run
    cache,           \* the value st.cache_resource holds for connect()
    opened,          \* number of connections opened so far
    pc,              \* where each session's script run is
    attempt,         \* connect(): the loop variable of the running call
    ret,             \* connect(): the call site to return to
    db,              \* the handle connect() has returned in the step just taken
    op,              \* the submitted form of the running handler
    current_balance, \* update_balance: the balance the SELECT returned
    result,          \* the (success, message) pair a database function or a
                     \* form check has returned in the step just taken
    ui_error,        \* the fatal st.error a halted run has shown
    logged_in,       \* st.session_state.logged_in
    user_email       \* st.session_state.user_email

vars == <<accounts, users, users_table, cache, opened, pc, attempt, ret, db,
          op, current_balance, result, ui_error, logged_in, user_email>>

store == <<accounts, users, users_table>>
session_state == <<logged_in, user_email>>
conn == <<cache, opened, attempt, ret>>

\* ------------------------------------------------------------ pure helpers
NoOp == [kind |-> "none", email |-> None, password |-> None, name |-> None,
         acc_id |-> 0, amount |-> 0]

NoResult == [session |-> None, ok |-> FALSE, kind |-> "none", name |-> None,
             bal |-> NoValue]

Failure(s, kind) == [NoResult EXCEPT !.session = s, !.kind = kind]

Success(s, kind) == [NoResult EXCEPT !.session = s, !.ok = TRUE, !.kind = kind]

\* bcrypt.hashpw(password, salt): the salt is kept in the hash
hashpw(password, salt) == <<salt, password>>

\* bcrypt.checkpw(password, stored_hash)
checkpw(password, stored_hash) == hashpw(password, stored_hash[1]) = stored_hash

\* SELECT ... FROM accounts WHERE id = acc_id: the set of matching row ids
AccountRows(acc_id) == {i \in DOMAIN accounts : i = acc_id}

\* SELECT password_hash FROM users WHERE email = email
UserRows(email) == {i \in DOMAIN users : users[i].email = email}

\* mutant: the users table has no UNIQUE constraint on email
DuplicateEntry_none(email) == FALSE

\* users.email UNIQUE: the INSERT raises "Duplicate entry ... for key email"
DuplicateEntry(email) == UserRows(email) # {}

\* mutant: the check rejects a withdrawal of the whole balance
Insufficient_strict(cur, amount) == cur <= amount

\* mutant: the check is missing
Insufficient_unchecked(cur, amount) == FALSE

\* update_balance: the check of the balance read against the amount
Insufficient(cur, amount) == cur < amount

\* mutant: the two UPDATE statements are swapped
NewBalance_swapped(balance, amount, operation) ==
    IF operation = "WITHDRAW" THEN balance + amount ELSE balance - amount

\* UPDATE accounts SET balance = balance +/- amount
NewBalance(balance, amount, operation) ==
    IF operation = "WITHDRAW" THEN balance - amount ELSE balance + amount

\* mutant: connect.clear() is not called
connect_clear_skipped(c) == c

\* connect.clear(): the cache after the invalidation
connect_clear(c) == NoHandle

\* str.upper() of the two operation names transaction_ui is called with
Upper(operation) == IF operation = "Deposit" THEN "DEPOSIT" ELSE "WITHDRAW"

\* ---------------------------------------------------------------- initial
\* The database outlives the process: at its start the accounts table is
\* empty or holds an account opened earlier.
InitialAccounts ==
    {<<>>, <<[name |-> "Asha", email |-> "asha@x.com", balance |-> 100]>>}

Init ==
    /\ accounts \in InitialAccounts
    /\ users = <<>>
    /\ users_table = FALSE
    /\ cache = NoHandle
    /\ opened = 0
    /\ pc = [s \in Sessions |-> "main"]
    /\ attempt = [s \in Sessions |-> 0]
    /\ ret = [s \in Sessions |-> "none"]
    /\ db = NoHandle
    /\ op = [s \in Sessions |-> NoOp]
    /\ current_balance = [s \in Sessions |-> 0]
    /\ result = NoResult
    /\ ui_error = [s \in Sessions |-> "none"]
    /\ logged_in = [s \in Sessions |-> FALSE]
    /\ user_email = [s \in Sessions |-> None]

\* ------------------------------------------------------------- connect()
\* st.cache_resource computes a missing value under a lock: one call at a
\* time runs the body of connect(), the others wait for it.
Computing == \E t \in Sessions : pc[t] = "connecting"

\* The pc a returning connect() continues at.
After(site) ==
    CASE site = "main" -> "setup"
      [] site = "op" -> "body"
      [] site = "balance" -> "get_balance"

\* A call of connect() from `site`: a cached handle is returned at once, a
\* missing one starts the retry loop.
Call(s, site) ==
    IF cache # NoHandle
    THEN /\ db' = cache
         /\ pc' = [pc EXCEPT ![s] = After(site)]
         /\ UNCHANGED <<attempt, ret>>
    ELSE /\ ~Computing
         /\ attempt' = [attempt EXCEPT ![s] = 0]
         /\ ret' = [ret EXCEPT ![s] = site]
         /\ pc' = [pc EXCEPT ![s] = "connecting"]
         /\ db' = NoHandle

\* main(), line 322: a script run starts; what the last run showed is gone.
MainConnect(s) ==
    /\ pc[s] = "main"
    /\ Call(s, "main")
    /\ result' = NoResult
    /\ ui_error' = [ui_error EXCEPT ![s] = "none"]
    /\ UNCHANGED <<store, cache, opened, op, current_balance, session_state>>

\* st.stop(): the script run ends here.
Stop(s, shown) ==
    /\ pc' = [pc EXCEPT ![s] = "halted"]
    /\ ui_error' = [ui_error EXCEPT ![s] = shown]
    /\ attempt' = [attempt EXCEPT ![s] = 0]
    /\ ret' = [ret EXCEPT ![s] = "none"]
    /\ db' = NoHandle
    /\ op' = [op EXCEPT ![s] = NoOp]
    /\ current_balance' = [current_balance EXCEPT ![s] = 0]

\* The last pass of `for attempt in range(MAX_RETRIES)`.
LastAttempt(a) == ~(a < MAX_RETRIES - 1)

\* mysql.connector.connect() returns a handle and db.is_connected() is true.
ConnectLive(s) ==
    /\ pc[s] = "connecting"
    /\ opened < MaxConns
    /\ opened' = opened + 1
    /\ cache' = opened + 1
    /\ db' = opened + 1
    /\ pc' = [pc EXCEPT ![s] = After(ret[s])]
    /\ attempt' = [attempt EXCEPT ![s] = 0]
    /\ ret' = [ret EXCEPT ![s] = "none"]
    /\ result' = NoResult
    /\ UNCHANGED <<store, op, current_balance, ui_error, session_state>>

\* mysql.connector.connect() raises Error: sleep and retry, or on the last
\* attempt st.error and st.stop().
ConnectError(s) ==
    /\ pc[s] = "connecting"
    /\ IF LastAttempt(attempt[s])
       THEN Stop(s, "connect")
       ELSE /\ attempt' = [attempt EXCEPT ![s] = attempt[s] + 1]
            /\ db' = NoHandle
            /\ UNCHANGED <<pc, ret, op, current_balance, ui_error>>
    /\ result' = NoResult
    /\ UNCHANGED <<store, cache, opened, session_state>>

\* mysql.connector.connect() returns a handle but db.is_connected() is
\* false: the loop goes on at once; after the last pass line 45 stops the
\* run without a message.
ConnectNotConnected(s) ==
    /\ pc[s] = "connecting"
    /\ IF LastAttempt(attempt[s])
       THEN Stop(s, "none")
       ELSE /\ attempt' = [attempt EXCEPT ![s] = attempt[s] + 1]
            /\ db' = NoHandle
            /\ UNCHANGED <<pc, ret, op, current_balance, ui_error>>
    /\ result' = NoResult
    /\ UNCHANGED <<store, cache, opened, session_state>>

\* A halted run is over; the next interaction runs the script again.
Rerun(s) ==
    /\ pc[s] = "halted"
    /\ pc' = [pc EXCEPT ![s] = "main"]
    /\ result' = NoResult
    /\ db' = NoHandle
    /\ UNCHANGED <<store, conn, op, current_balance, ui_error,
                   session_state>>

\* ----------------------------------------------------- create_user_table
create_user_table(s) ==
    /\ pc[s] = "setup"
    /\ users_table' = TRUE
    /\ pc' = [pc EXCEPT ![s] = "page"]
    /\ db' = NoHandle
    /\ result' = NoResult
    /\ UNCHANGED <<accounts, users, conn, op, current_balance, ui_error,
                   session_state>>

\* cursor.execute or commit raises mysql.connector.Error: st.error, st.stop
create_user_table_error(s) ==
    /\ pc[s] = "setup"
    /\ Stop(s, "table")
    /\ result' = NoResult
    /\ UNCHANGED <<store, cache, opened, session_state>>

\* ------------------------------------------------------------ form handlers
\* The run ends: the handler has returned and the page is drawn.
Finish(s, r) ==
    /\ pc' = [pc EXCEPT ![s] = "main"]
    /\ result' = r
    /\ db' = NoHandle
    /\ op' = [op EXCEPT ![s] = NoOp]
    /\ current_balance' = [current_balance EXCEPT ![s] = 0]

\* The form check fails: st.warning, and the run ends.
Reject(s) ==
    /\ Finish(s, Failure(s, "Warning"))
    /\ UNCHANGED <<attempt, ret>>

\* The handler calls a database function, whose first line is
\* `db = connect()`.
Submit(s, o) ==
    /\ op' = [op EXCEPT ![s] = o]
    /\ Call(s, "op")
    /\ result' = NoResult
    /\ UNCHANGED current_balance

\* login_page, lines 106-117
login_submit(s, email, password) ==
    /\ pc[s] = "page"
    /\ ~logged_in[s]
    /\ IF email = None \/ password = None
       THEN Reject(s)
       ELSE Submit(s, [NoOp EXCEPT !.kind = "login", !.email = email,
                                   !.password = password])
    /\ UNCHANGED <<store, cache, opened, ui_error, session_state>>

\* login_page, lines 127-139
register_submit(s, email, password) ==
    /\ pc[s] = "page"
    /\ ~logged_in[s]
    /\ IF email = None \/ password = None
       THEN Reject(s)
       ELSE IF Len(password) < 6
       THEN Reject(s)
       ELSE Submit(s, [NoOp EXCEPT !.kind = "register", !.email = email,
                                   !.password = password])
    /\ UNCHANGED <<store, cache, opened, ui_error, session_state>>

\* create_account_ui, lines 241-251
create_account_ui(s, name, email, balance) ==
    /\ pc[s] = "page"
    /\ logged_in[s]
    /\ IF name = None \/ email = None
       THEN Reject(s)
       ELSE IF balance <= 0
       THEN Reject(s)
       ELSE Submit(s, [NoOp EXCEPT !.kind = "create", !.name = name,
                                   !.email = email, !.amount = balance])
    /\ UNCHANGED <<store, cache, opened, ui_error, session_state>>

\* view_accounts_ui, line 256
view_accounts_ui(s) ==
    /\ pc[s] = "page"
    /\ logged_in[s]
    /\ Submit(s, [NoOp EXCEPT !.kind = "list"])
    /\ UNCHANGED <<store, cache, opened, ui_error, session_state>>

\* transaction_ui, lines 283-296
transaction_ui(s, operation, acc_id, amount) ==
    /\ pc[s] = "page"
    /\ logged_in[s]
    /\ IF amount <= 0
       THEN Reject(s)
       ELSE IF acc_id < 1
       THEN Reject(s)
       ELSE Submit(s, [NoOp EXCEPT !.kind = Upper(operation),
                                   !.acc_id = acc_id, !.amount = amount])
    /\ UNCHANGED <<store, cache, opened, ui_error, session_state>>

\* check_balance_ui, lines 305-314
check_balance_ui(s, acc_id) ==
    /\ pc[s] = "page"
    /\ logged_in[s]
    /\ IF acc_id < 1
       THEN Reject(s)
       ELSE Submit(s, [NoOp EXCEPT !.kind = "balance", !.acc_id = acc_id])
    /\ UNCHANGED <<store, cache, opened, ui_error, session_state>>

\* logout, lines 142-148: the on_click callback of the sidebar button
logout(s) ==
    /\ pc[s] = "main"
    /\ logged_in[s]
    /\ logged_in' = [logged_in EXCEPT ![s] = FALSE]
    /\ user_email' = [user_email EXCEPT ![s] = None]
    /\ result' = NoResult
    /\ db' = NoHandle
    /\ UNCHANGED <<store, conn, pc, op, current_balance, ui_error>>

\* A run in which no form is submitted: the page is drawn and the run ends.
render(s) ==
    /\ pc[s] = "page"
    /\ pc' = [pc EXCEPT ![s] = "main"]
    /\ result' = NoResult
    /\ db' = NoHandle
    /\ UNCHANGED <<store, conn, op, current_balance, ui_error,
                   session_state>>

\* ------------------------------------------------------ database functions
\* register_user, lines 48-66
register_user(s) ==
    /\ pc[s] = "body"
    /\ op[s].kind = "register"
    /\ IF DuplicateEntry(op[s].email)
       THEN /\ Finish(s, Failure(s, "DuplicateEmail"))
            /\ UNCHANGED users
       ELSE /\ Len(users) < MaxUsers
            /\ \E salt \in Salts :
                 users' = Append(users,
                     [email |-> op[s].email,
                      password_hash |-> hashpw(op[s].password, salt)])
            /\ Finish(s, Success(s, "Registered"))
    /\ UNCHANGED <<accounts, users_table, conn, ui_error, session_state>>

\* authenticate_user, lines 69-87, and the login of lines 111-115
authenticate_user(s) ==
    /\ pc[s] = "body"
    /\ op[s].kind = "login"
    /\ LET rows == UserRows(op[s].email) IN
       IF rows # {}
       THEN LET stored_hash == users[CHOOSE i \in rows : TRUE].password_hash IN
            IF checkpw(op[s].password, stored_hash)
            THEN /\ Finish(s, Success(s, "Verified"))
                 /\ logged_in' = [logged_in EXCEPT ![s] = TRUE]
                 /\ user_email' = [user_email EXCEPT ![s] = op[s].email]
            ELSE /\ Finish(s, Failure(s, "WrongPassword"))
                 /\ UNCHANGED session_state
       ELSE /\ Finish(s, Failure(s, "EmailNotFound"))
            /\ UNCHANGED session_state
    /\ UNCHANGED <<store, conn, ui_error>>

\* create_account_db, lines 153-165
create_account_db(s) ==
    /\ pc[s] = "body"
    /\ op[s].kind = "create"
    /\ Len(accounts) < MaxAccounts
    /\ accounts' = Append(accounts, [name |-> op[s].name, email |-> op[s].email,
                                     balance |-> op[s].amount])
    /\ cache' = connect_clear(cache)
    /\ Finish(s, Success(s, "AccountCreated"))
    /\ UNCHANGED <<users, users_table, opened, attempt, ret, ui_error,
                   session_state>>

\* get_all_accounts, lines 167-178
get_all_accounts(s) ==
    /\ pc[s] = "body"
    /\ op[s].kind = "list"
    /\ Finish(s, Success(s, "Listed"))
    /\ UNCHANGED <<store, conn, ui_error, session_state>>

\* update_balance, lines 186-194: the SELECT of a withdrawal and its checks
update_balance_select(s) ==
    /\ pc[s] = "body"
    /\ op[s].kind = "WITHDRAW"
    /\ IF AccountRows(op[s].acc_id) = {}
       THEN Finish(s, Failure(s, "NotFound"))
       ELSE LET cur == accounts[op[s].acc_id].balance IN
            IF Insufficient(cur, op[s].amount)
            THEN Finish(s, [Failure(s, "Insufficient") EXCEPT !.bal = <<cur>>])
            ELSE /\ current_balance' = [current_balance EXCEPT ![s] = cur]
                 /\ pc' = [pc EXCEPT ![s] = "update"]
                 /\ result' = NoResult
                 /\ db' = NoHandle
                 /\ UNCHANGED op
    /\ UNCHANGED <<store, conn, ui_error, session_state>>

\* mutant: cursor.rowcount is not looked at
RowCount_ignored(acc_id, amount, operation) == 1

\* cursor.rowcount of the UPDATE: the rows whose balance it changed
RowCount(acc_id, amount, operation) ==
    Cardinality({i \in AccountRows(acc_id) :
                   NewBalance(accounts[i].balance, amount, operation)
                     # accounts[i].balance})

\* The accounts table after the UPDATE.
Updated(acc_id, amount, operation) ==
    [i \in DOMAIN accounts |->
       IF i \in AccountRows(acc_id)
       THEN [accounts[i] EXCEPT
               !.balance = NewBalance(accounts[i].balance, amount, operation)]
       ELSE accounts[i]]

\* update_balance, lines 194-209: the UPDATE, the commit and connect.clear()
update_balance_execute(s) ==
    /\ \/ pc[s] = "body" /\ op[s].kind = "DEPOSIT"
       \/ pc[s] = "update"
    /\ IF RowCount(op[s].acc_id, op[s].amount, op[s].kind) = 0
       THEN /\ Finish(s, Failure(s, "NotFound"))
            /\ UNCHANGED <<accounts, cache>>
       ELSE /\ accounts' = Updated(op[s].acc_id, op[s].amount, op[s].kind)
            /\ cache' = connect_clear(cache)
            /\ result' = Success(s, IF op[s].kind = "DEPOSIT" THEN "DEPOSITED"
                                                         ELSE "WITHDRAWAL")
            /\ pc' = [pc EXCEPT ![s] = "balance_connect"]
            /\ db' = NoHandle
            /\ op' = [op EXCEPT ![s] = [NoOp EXCEPT !.kind = op[s].kind,
                                                    !.acc_id = op[s].acc_id]]
            /\ current_balance' = [current_balance EXCEPT ![s] = 0]
    /\ UNCHANGED <<users, users_table, opened, attempt, ret, ui_error,
                   session_state>>

\* transaction_ui, line 292: get_balance after a success calls connect()
BalanceConnect(s) ==
    /\ pc[s] = "balance_connect"
    /\ Call(s, "balance")
    /\ result' = NoResult
    /\ UNCHANGED <<store, cache, opened, op, current_balance, ui_error,
                   session_state>>

\* get_balance, lines 214-228: the value it returns
Balance(s, acc_id) ==
    IF AccountRows(acc_id) # {}
    THEN [Success(s, "Balance") EXCEPT !.name = accounts[acc_id].name,
                                       !.bal = <<accounts[acc_id].balance>>]
    ELSE Failure(s, "NotFound")

\* get_balance called by check_balance_ui, line 309
get_balance(s) ==
    /\ pc[s] = "body"
    /\ op[s].kind = "balance"
    /\ Finish(s, Balance(s, op[s].acc_id))
    /\ UNCHANGED <<store, conn, ui_error, session_state>>

\* get_balance called by transaction_ui after a success, lines 292-294
get_balance_updated(s) ==
    /\ pc[s] = "get_balance"
    /\ Finish(s, Balance(s, op[s].acc_id))
    /\ UNCHANGED <<store, conn, ui_error, session_state>>

\* mutant: a database function stops the run on mysql.connector.Error
store_error_stops(s) ==
    /\ pc[s] \in {"body", "update", "get_balance"}
    /\ Stop(s, "table")
    /\ result' = NoResult
    /\ UNCHANGED <<store, cache, opened, session_state>>

\* A statement or the commit of a database function raises
\* mysql.connector.Error: the function returns (False, "... error: ...").
store_error(s) ==
    /\ pc[s] \in {"body", "update", "get_balance"}
    /\ Finish(s, Failure(s, "StoreError"))
    /\ UNCHANGED <<store, conn, ui_error, session_state>>

\* ------------------------------------------------------------------- next
\* connect(), the start of a run and the table setup: every run has them
Common(s) ==
    \/ MainConnect(s)
    \/ ConnectLive(s)
    \/ ConnectError(s)
    \/ ConnectNotConnected(s)
    \/ Rerun(s)
    \/ create_user_table(s)
    \/ create_user_table_error(s)
    \/ render(s)
    \/ store_error(s)

\* the login page and the credential store
Login(s) ==
    \/ \E email \in Emails \cup {None}, password \in Passwords \cup {None} :
         \/ login_submit(s, email, password)
         \/ register_submit(s, email, password)
    \/ register_user(s)
    \/ authenticate_user(s)
    \/ logout(s)

\* the banking menu and the account ledger
Bank(s) ==
    \/ \E name \in Names \cup {None}, email \in AccountEmails \cup {None},
          balance \in OpeningBalances :
         create_account_ui(s, name, email, balance)
    \/ view_accounts_ui(s)
    \/ \E operation \in Operations, acc_id \in AccountIds, amount \in Amounts :
         transaction_ui(s, operation, acc_id, amount)
    \/ \E acc_id \in AccountIds : check_balance_ui(s, acc_id)
    \/ get_all_accounts(s)
    \/ create_account_db(s)
    \/ update_balance_select(s)
    \/ update_balance_execute(s)
    \/ BalanceConnect(s)
    \/ get_balance_updated(s)
    \/ get_balance(s)

\* The whole application, used by every session.
Next == \E s \in Sessions : Common(s) \/ Login(s) \/ Bank(s)

Spec == Init /\ [][Next]_vars

\* The whole application, used by one session.
NextSolo == Common("s1") \/ Login("s1") \/ Bank("s1")

SpecSolo == Init /\ [][NextSolo]_vars

\* Concurrent sessions on the login page.
NextLogin == \E s \in Sessions : Common(s) \/ Login(s)

SpecLogin == Init /\ [][NextLogin]_vars

\* Concurrent sessions on the banking menu: a user has registered and both
\* sessions have logged in over the first connection.
InitBank ==
    /\ accounts = <<>>
    /\ users = <<[email |-> "a@x.com",
                  password_hash |-> hashpw("secret1", "s1")]>>
    /\ users_table = TRUE
    /\ cache = 1
    /\ opened = 1
    /\ pc = [s \in Sessions |-> "main"]
    /\ attempt = [s \in Sessions |-> 0]
    /\ ret = [s \in Sessions |-> "none"]
    /\ db = NoHandle
    /\ op = [s \in Sessions |-> NoOp]
    /\ current_balance = [s \in Sessions |-> 0]
    /\ result = NoResult
    /\ ui_error = [s \in Sessions |-> "none"]
    /\ logged_in = [s \in Sessions |-> TRUE]
    /\ user_email = [s \in Sessions |-> "a@x.com"]

NextBank == \E s \in Sessions : Common(s) \/ Bank(s)

SpecBank == InitBank /\ [][NextBank]_vars

\* ----------------------------------------------------------------- claims
\* The step is one of session s.
Steps(s) == pc'[s] # pc[s] \/ op'[s] # op[s] \/ attempt'[s] # attempt[s]

\* The step is a statement of a database function of s that raised no error.
Executes(s) == Steps(s) /\ result'.kind # "StoreError"

\* C1: in every reachable state every account's balance is >= 0, also when
\* the steps of operations of different sessions interleave.
C1_BalanceNonNegative ==
    \A i \in DOMAIN accounts : accounts[i].balance >= 0

\* C2: a WITHDRAW on an existing account of more than the balance it reads
\* fails with InsufficientFunds carrying that balance, issues no update and
\* no commit and leaves every account unchanged; a WITHDRAW of exactly the
\* balance is not rejected.
C2_InsufficientFunds ==
    [][\A s \in Sessions :
         (/\ pc[s] = "body"
          /\ op[s].kind = "WITHDRAW"
          /\ AccountRows(op[s].acc_id) # {}
          /\ Executes(s))
         => LET cur == accounts[op[s].acc_id].balance IN
            /\ op[s].amount > cur =>
                 /\ result' = [Failure(s, "Insufficient") EXCEPT !.bal = <<cur>>]
                 /\ pc'[s] = "main"
                 /\ accounts' = accounts
                 /\ cache' = cache
            /\ op[s].amount = cur =>
                 /\ result'.kind # "Insufficient"
                 /\ pc'[s] = "update"]_vars

\* C2 happens: a withdrawal is refused with the balance of the account.
C2_Witness ==
    /\ result.kind = "Insufficient"
    /\ accounts # <<>>
    /\ result.bal = <<accounts[1].balance>>

\* C3: on an existing account a DEPOSIT of amount > 0 succeeds and raises
\* the balance by exactly amount, a successful WITHDRAW lowers it by exactly
\* amount, and nothing else of the accounts table changes.
C3_ExactAmount ==
    [][\A s \in Sessions :
         /\ (/\ pc[s] = "body"
             /\ op[s].kind = "DEPOSIT"
             /\ op[s].amount > 0
             /\ AccountRows(op[s].acc_id) # {}
             /\ Executes(s))
            => /\ result' = Success(s, "DEPOSITED")
               /\ accounts' = [accounts EXCEPT ![op[s].acc_id].balance =
                                                 @ + op[s].amount]
         /\ (/\ pc[s] = "update"
             /\ Executes(s)
             /\ result'.ok)
            => /\ result' = Success(s, "WITHDRAWAL")
               /\ accounts' = [accounts EXCEPT ![op[s].acc_id].balance =
                                                 @ - op[s].amount]]_vars

\* C3 happens: opening 100, withdraw 50 gives 50, deposit 25 gives 75.
C3_Witness ==
    /\ result.kind = "DEPOSITED"
    /\ accounts # <<>>
    /\ accounts[1].balance = 75

\* C4: for every existing account and every amount > 0, a DEPOSIT of the
\* amount followed at once by a WITHDRAW of the same amount both succeed and
\* leave the balance as it was before the deposit.
C4_RoundTrip ==
    \A i \in DOMAIN accounts : \A amount \in Amounts :
       amount > 0 =>
          LET before == accounts[i].balance
              deposited == NewBalance(before, amount, "DEPOSIT")
          IN  /\ ~Insufficient(deposited, amount)
              /\ NewBalance(deposited, amount, "WITHDRAW") = before

\* C5: for an account id that matches no account, getBalance, DEPOSIT and
\* WITHDRAW fail with AccountNotFound, return no name/balance record, create
\* no account and change no balance.
C5_AccountNotFound ==
    [][\A s \in Sessions :
         (/\ pc[s] = "body"
          /\ op[s].kind \in {"balance", "DEPOSIT", "WITHDRAW"}
          /\ AccountRows(op[s].acc_id) = {}
          /\ Executes(s))
         => /\ result' = Failure(s, "NotFound")
            /\ pc'[s] = "main"
            /\ accounts' = accounts]_vars

\* C5 happens: an operation on a missing account has been refused.
C5_Witness ==
    /\ result.kind = "NotFound"
    /\ result.bal = NoValue
    /\ result.name = None

\* C6: an uncached connect() makes at most 5 attempts; it returns the handle
\* at the first live attempt without any user-visible error, and when no
\* attempt is live it shows the fatal error and halts; it ends in one of
\* these two outcomes.
C6_ConnectOutcome ==
    [][\A s \in Sessions :
         (pc[s] = "connecting" /\ Steps(s))
         => /\ attempt[s] < MAX_RETRIES
            /\ \/ /\ pc'[s] = After(ret[s])
                  /\ db' # NoHandle
                  /\ ui_error'[s] = "none"
               \/ /\ pc'[s] = "connecting"
                  /\ attempt'[s] = attempt[s] + 1
                  /\ attempt'[s] < MAX_RETRIES
               \/ /\ pc'[s] = "halted"
                  /\ attempt[s] = MAX_RETRIES - 1
                  /\ ui_error'[s] = "connect"]_vars

\* A call of connect() by s ends or starts its retry loop in this step.
Calls(s) ==
    \/ pc[s] = "main" /\ pc'[s] \in {"setup", "connecting"}
    \/ pc[s] = "page" /\ pc'[s] \in {"body", "connecting"}
    \/ pc[s] = "balance_connect" /\ pc'[s] \in {"get_balance", "connecting"}

\* C7: connect() is memoized: while a handle is cached every call returns it
\* and opens nothing; each committed createAccount, deposit or withdraw
\* invalidates the cache; a call that finds the cache empty returns only a
\* newly opened connection.
C7_Memoized ==
    [][/\ \A s \in Sessions :
            (cache # NoHandle /\ Calls(s))
            => /\ db' = cache
               /\ pc'[s] # "connecting"
               /\ opened' = opened
               /\ cache' = cache
       /\ (cache = NoHandle /\ db' # NoHandle)
            => /\ opened' = opened + 1
               /\ db' = opened'
               /\ cache' = db'
       /\ accounts' # accounts => cache' = NoHandle]_vars

\* C7 happens: after an invalidation connect() has returned a second handle.
C7_Witness ==
    /\ db = 2
    /\ cache = 2
    /\ accounts # <<>>

\* The users table holds at most one row for each email.
UniqueEmails == \A i, j \in DOMAIN users :
                   users[i].email = users[j].email => i = j

\* C8: each email has at most one user row: a register call for a stored
\* email fails with DuplicateEmail and leaves the users table, and so the
\* hash of the first registration, unchanged.
C8_DuplicateEmail ==
    [][/\ UniqueEmails'
       /\ \A s \in Sessions :
            (/\ pc[s] = "body"
             /\ op[s].kind = "register"
             /\ UserRows(op[s].email) # {}
             /\ Executes(s))
            => /\ result' = Failure(s, "DuplicateEmail")
               /\ users' = users]_vars

\* C8 happens: a second registration of a stored email has been refused.
C8_Witness ==
    /\ result.kind = "DuplicateEmail"
    /\ users # <<>>

\* The run of s is stopped by this step.
Halts(s) == pc[s] # "halted" /\ pc'[s] = "halted"

\* An error is reported to s as a failure result, the process runs on and
\* the login state of s stays.
Recovers(s) ==
    (result'.session = s /\ ~result'.ok)
    => /\ pc'[s] = "main"
       /\ logged_in'[s] = logged_in[s]
       /\ user_email'[s] = user_email[s]

\* C9, as stated: the process halts only when the connection retries are
\* exhausted; every other error is a failure result that leaves the process
\* running and the login state unchanged.
C9_HaltsOnlyOnConnect ==
    [][\A s \in Sessions :
         /\ Halts(s) => pc[s] = "connecting" /\ LastAttempt(attempt[s])
         /\ Recovers(s)]_vars

\* C9, amended: the process halts only when the connection retries are
\* exhausted or when create_user_table fails, which shows a fatal error;
\* every other error is a failure result that leaves the process running
\* and the login state unchanged.
C9_HaltsOnConnectOrSetup ==
    [][\A s \in Sessions :
         /\ Halts(s) =>
              \/ pc[s] = "connecting" /\ LastAttempt(attempt[s])
              \/ pc[s] = "setup" /\ ui_error'[s] = "table"
         /\ Recovers(s)]_vars

\* C9 happens: a logged-in session has been shown a store error and goes on.
C9_Witness ==
    \E s \in Sessions :
       /\ result = Failure(s, "StoreError")
       /\ logged_in[s]
       /\ pc[s] = "main"

\* C10: a balance is lowered only by a withdrawal that reports success and
\* whose amount was <= the balance it had read; two such withdrawals of
\* concurrent sessions can still end below 0 (the witness).
C10_LoweredBySufficientRead ==
    [][\A i \in DOMAIN accounts :
         accounts'[i].balance < accounts[i].balance
         => \E s \in Sessions :
              /\ pc[s] = "update"
              /\ op[s].acc_id = i
              /\ op[s].amount <= current_balance[s]
              /\ accounts'[i].balance = accounts[i].balance - op[s].amount
              /\ result' = Success(s, "WITHDRAWAL")]_vars

\* C10 happens: both sessions have withdrawn with success from account 1
\* and its balance is below 0.
C10_Witness ==
    /\ accounts # <<>>
    /\ accounts[1].balance < 0
    /\ result.kind = "WITHDRAWAL"
    /\ \E s \in Sessions :
         /\ s # result.session
         /\ pc[s] = "balance_connect"
         /\ op[s].kind = "WITHDRAW"
         /\ op[s].acc_id = 1

====
